---- MODULE Spec2Model ----
(***************************************************************************)
(* MelodyAI: the staff component (long-press note placement), the App      *)
(* state handlers (add, undo, clear, remove, play, generate), the audio    *)
(* service's transport and the Gemini service's post-processing.           *)
(*                                                                         *)
(* Time is the browser clock in milliseconds.  Note start times are kept   *)
(* in units of 1/UnitsPerStep of a 16th-note step, so that the fractional  *)
(* start times the AI may return (startTime is a JSON NUMBER) exist in the *)
(* model.  Pixel comparisons are done on integers by clearing the          *)
(* denominators.                                                           *)
(***************************************************************************)
EXTENDS Integers, Sequences, FiniteSets, TLC

\* ---------------------------------------------------------------- bounds
MaxTicks == 4            \* the clock advances this many times
MaxNotes == 3            \* holds are started only while fewer notes + holds exist
MaxRaw == 2              \* longest array the AI service answers with
MaxPending == 1          \* handlers suspended in `await initialize()` at a time
UnitsPerStep == 2        \* start-time units per 16th-note step

\* ------------------------------------------------------ program constants
HOLD_DURATION == 2500
EXCLUSION_RADIUS == 20
REPLAY_DELAY == 500
NOTE_DURATION == 4
MIN_NOTES == 3
stepWidth == 30
lineHeight == 12
NOTE_RX == 9
STEM_DX == 8
STEM_LEN == 30
SIXTEENTH_MS == 125
PLAYBACK_PAD_MS == 1000

\* the clock advances by one hold at a time (ms)
TimeStep == HOLD_DURATION

PITCH_ORDER ==
  << "A5", "G#5", "G5", "F#5", "F5", "E5", "D#5", "D5", "C#5", "C5",
     "B4", "A#4", "A4", "G#4", "G4", "F#4", "F4", "E4", "D#4", "D4", "C#4", "C4" >>

\* pointerIds: a mouse is one pointer, touches are several
Pointers == {1, 2}
MousePointers == {1}

\* Pointer positions (mx, my) inside the hit-rect, in pixels.
Positions == { <<0, 15>>, <<60, 15>>, <<120, 15>> }

Abs(x) == IF x < 0 THEN -x ELSE x
Max(a, b) == IF a > b THEN a ELSE b
Min(a, b) == IF a < b THEN a ELSE b
ButLast(s) == SubSeq(s, 1, Len(s) - 1)
Range(s) == { s[k] : k \in 1..Len(s) }

\* ------------------------------------------------------------- the scales
\* yScale = scalePoint().domain(PITCH_ORDER).range([0, (n-1)*lineHeight/2]).padding(0.5):
\* step = range / n and yScale(PITCH_ORDER[i]) = step * (i + 1/2), i counted from 0.
yRange == (Len(PITCH_ORDER) - 1) * (lineHeight \div 2)
YDen == 2 * Len(PITCH_ORDER)
PitchIndex(pitch) == CHOOSE i \in 1..Len(PITCH_ORDER) : PITCH_ORDER[i] = pitch
yScaleDefined(pitch) == pitch \in Range(PITCH_ORDER)
\* yScale(pitch) * YDen
yScaleNum(pitch) == yRange * (2 * (PitchIndex(pitch) - 1) + 1)
\* xScale(startTime) * UnitsPerStep: the scale is linear, stepWidth px per step
xScaleNum(startTime) == stepWidth * startTime

\* Math.round(xScale.invert(mx)), mx >= 0
StepIndexAt(mx) == (2 * mx + stepWidth) \div (2 * stepWidth)
\* domain[clamp(Math.round(my / yScale.step()))], my >= 0
ClosestIndex(my) == (2 * my * Len(PITCH_ORDER) + yRange) \div (2 * yRange)
PitchAt(my) == PITCH_ORDER[Max(0, Min(Len(PITCH_ORDER) - 1, ClosestIndex(my))) + 1]

\* (distance from (mx,my) to (nx, nyNum/YDen))^2 < r^2, denominators cleared
WithinOf(mx, my, startTime, nyNum, r) ==
  LET dx == YDen * (UnitsPerStep * mx - xScaleNum(startTime))
      dy == UnitsPerStep * (YDen * my - nyNum)
      rr == r * UnitsPerStep * YDen
  IN dx * dx + dy * dy < rr * rr

\* notes.some(note => ...): a note whose pitch yScale does not know is skipped
isNearExistingNote(ns, mx, my) ==
  \E k \in 1..Len(ns) :
    /\ yScaleDefined(ns[k].pitch)
    /\ WithinOf(mx, my, ns[k].startTime, yScaleNum(ns[k].pitch), EXCLUSION_RADIUS)

\* Where the notes layer draws a note: y = yScale(d.pitch) || 0.
DrawnYNum(note) == IF yScaleDefined(note.pitch) THEN yScaleNum(note.pitch) ELSE 0
IsNearDrawnNote(ns, mx, my) ==
  \E k \in 1..Len(ns) :
    WithinOf(mx, my, ns[k].startTime, DrawnYNum(ns[k]), EXCLUSION_RADIUS)

\* The note groups lie above the hit-rect: a pointer on a note's head or stem
\* is delivered to the note group, not to the hit-rect.  The head (a rotated
\* 9x6 ellipse) is covered by the circle of radius NOTE_RX around it.
OnNoteShape(ns, mx, my) ==
  \E k \in 1..Len(ns) :
    \/ WithinOf(mx, my, ns[k].startTime, DrawnYNum(ns[k]), NOTE_RX + 1)
    \/ /\ Abs(UnitsPerStep * (mx - STEM_DX) - xScaleNum(ns[k].startTime)) <= UnitsPerStep
       /\ YDen * my <= DrawnYNum(ns[k])
       /\ YDen * my >= DrawnYNum(ns[k]) - YDen * STEM_LEN

\* ------------------------------------------------------------------ state
VARIABLES
  now,             \* Date.now(), ms
  notes,           \* App: useState<Note[]>
  playbackState,   \* App: useState<PlaybackState>
  isGenerating,    \* App: useState(false)
  message,         \* App: useState<string>
  activePointers,  \* Staff: useRef(new Map(...)), None = no entry
  timers,          \* pending placement timers (setTimeout handles)
  ripples,         \* pointers whose ripple interval is running
  pointer,         \* the browser's pointers: down? and since when
  audio,           \* AudioService: sampler "none" | "loading" | "ready"
  sounding,        \* pitches attacked by startNote and not yet released
  transport,       \* Tone.Transport with the completion event scheduled on it
  completeQ,       \* onComplete callbacks queued by setTimeout(onComplete, 0)
  replayTimers,    \* handleGenerate's setTimeout(..., 500) timers
  suspended,       \* handlers waiting in `await audioService.initialize()`, in order
  requests,        \* completeMelody calls awaiting the AI service, in order
  event            \* "undo" when the handler that ran last was handleUndo

vars == << now, notes, playbackState, isGenerating, message, activePointers,
           timers, ripples, pointer, audio, sounding, transport, completeQ,
           replayTimers, suspended, requests, event >>

None == [none |-> TRUE]
NoCb == [k |-> "none", generating |-> FALSE]
StoppedTransport == [state |-> "stopped", onComplete |-> NoCb, due |-> 0, notes |-> << >>]
\* the sequence has played to its end: nothing is scheduled any more
FinishedTransport == [StoppedTransport EXCEPT !.state = "started"]
PointerUpState == [down |-> FALSE, since |-> 0]

\* -------------------------------------------------------- the AI service
\* What generateContent can answer: a rejection, an empty text, a text that
\* is not JSON, or the JSON text of an array of raw notes: the empty array or
\* MaxRaw consecutive elements of RawNotes.
RawNotes ==
  << [pitch |-> "F#5", startTime |-> 0, duration |-> NOTE_DURATION],
     [pitch |-> "F#5", startTime |-> 1, duration |-> NOTE_DURATION],
     [pitch |-> "F#5", startTime |-> UnitsPerStep, duration |-> 2 * NOTE_DURATION],
     [pitch |-> "C3", startTime |-> 4 * UnitsPerStep, duration |-> NOTE_DURATION] >>

RawArrays ==
  { << >> } \cup { SubSeq(RawNotes, k, k + MaxRaw - 1) : k \in 1..(Len(RawNotes) - MaxRaw + 1) }

Responses ==
  { [kind |-> "rejected", value |-> << >>],
    [kind |-> "empty", value |-> << >>],
    [kind |-> "malformed", value |-> << >>] }
  \cup { [kind |-> "json", value |-> a] : a \in RawArrays }

isOriginalMatch_Loose(currentNotes, n) ==
  \E k \in 1..Len(currentNotes) :
    /\ currentNotes[k].pitch = n.pitch
    /\ Abs(currentNotes[k].startTime - n.startTime) < 2 * UnitsPerStep

\* currentNotes.some(cn => cn.pitch === n.pitch && Math.abs(cn.startTime - n.startTime) < 1)
isOriginalMatch(currentNotes, n) ==
  \E k \in 1..Len(currentNotes) :
    /\ currentNotes[k].pitch = n.pitch
    /\ Abs(currentNotes[k].startTime - n.startTime) < UnitsPerStep

\* rawNotes.map((n, index) => ({id: `ai-${index}-${Date.now()}`, ...}))
PostProcess(currentNotes, rawNotes, t) ==
  [index \in 1..Len(rawNotes) |->
     [id |-> << "ai", index - 1, t >>,
      pitch |-> rawNotes[index].pitch,
      startTime |-> rawNotes[index].startTime,
      duration |-> rawNotes[index].duration,
      isAiGenerated |-> ~isOriginalMatch(currentNotes, rawNotes[index])]]

completeMelody_Swallows(currentNotes, response, t) ==
  [threw |-> FALSE, value |-> PostProcess(currentNotes, response.value, t)]

\* GeminiService.completeMelody once generateContent has settled; t = Date.now()
completeMelody(currentNotes, response, t) ==
  IF response.kind # "json"
  THEN [threw |-> TRUE, value |-> << >>]
  ELSE [threw |-> FALSE, value |-> PostProcess(currentNotes, response.value, t)]

\* ------------------------------------------------------ the audio service
\* initialize(): the first call creates the sampler and starts loading it
initialize(a) == IF a = "none" THEN "loading" ELSE a
\* startNote(pitch): attacks only once the sampler is loaded, else initialize()
startNoteAudio(a) == IF a = "ready" THEN a ELSE initialize(a)
startNoteSounding(a, snd, pitch) == IF a = "ready" THEN snd \cup {pitch} ELSE snd
\* stopNote(pitch)
stopNote(a, snd, pitch) == IF a = "ready" THEN snd \ {pitch} ELSE snd
\* stop(): Transport.stop(); Transport.cancel(); synth.releaseAll()
stopSounding(a, snd) == IF a = "none" THEN snd ELSE {}

\* [...notes].sort((a, b) => a.startTime - b.startTime) is stable: the last
\* element is the latest note, in list order, among those starting last.
LastNote(ns) ==
  LET k == CHOOSE i \in 1..Len(ns) :
             \A j \in 1..Len(ns) :
               \/ ns[j].startTime < ns[i].startTime
               \/ (ns[j].startTime = ns[i].startTime /\ j <= i)
  IN ns[k]

\* when the completion event is due: (last end step) * 16n + startDelay + 0.5 s
CompletionDue(ns, t) ==
  t + PLAYBACK_PAD_MS
    + (SIXTEENTH_MS * (LastNote(ns).startTime + UnitsPerStep * LastNote(ns).duration))
        \div UnitsPerStep

\* playSequence(ns, onComplete) with the sampler loaded, ns not empty
playSequence(ns, cb, t) ==
  [state |-> "started", onComplete |-> cb, due |-> CompletionDue(ns, t), notes |-> ns]

\* ------------------------------------------------------------- App pieces
handleAddNote_Prepends(prev, note) == << note >> \o prev
\* setNotes(prev => [...prev, note])
handleAddNote(prev, note) == Append(prev, note)

handleUndo_Shift(prev) == IF prev = << >> THEN prev ELSE Tail(prev)
\* newNotes = [...prev]; newNotes.pop()
handleUndo(prev) == IF prev = << >> THEN prev ELSE ButLast(prev)

onRemoveNote_ByPitch(prev, id) ==
  LET gone == { prev[k].pitch : k \in { j \in 1..Len(prev) : prev[j].id = id } }
      Keep(n) == n.pitch \notin gone
  IN SelectSeq(prev, Keep)

\* setNotes(prev => prev.filter(n => n.id !== id))
onRemoveNote(prev, id) ==
  LET Keep(n) == n.id # id IN SelectSeq(prev, Keep)

TooFewNotes_One(ns) == Len(ns) < 1
\* notes.length < 3
TooFewNotes(ns) == Len(ns) < MIN_NOTES

setNotesAfterGenerate_Appends(prev, newNotes) == prev \o newNotes
\* setNotes(newNotes)
setNotesAfterGenerate(prev, newNotes) == newNotes

IsPlayingAtPress_Never(c) == FALSE
\* playbackState === PlaybackState.PLAYING, as the handler's render saw it
IsPlayingAtPress(c) == c.playbackState = "PLAYING"

\* ----------------------------------------------------------- Staff pieces
NewNote_NoPointerId(pointerId, data, t) ==
  [id |-> << "user", t, 0 >>, pitch |-> data.pitch,
   startTime |-> data.stepIndex * UnitsPerStep, duration |-> NOTE_DURATION,
   isAiGenerated |-> FALSE]

\* the note the placement timer hands to onAddNote
NewNote(pointerId, data, t) ==
  [id |-> << "user", t, pointerId >>, pitch |-> data.pitch,
   startTime |-> data.stepIndex * UnitsPerStep, duration |-> NOTE_DURATION,
   isAiGenerated |-> FALSE]

MarkPlaced_Forgets(data) == data
\* data.hasPlaced = true
MarkPlaced(data) == [data EXCEPT !.hasPlaced = TRUE]

clearTimeout_Noop(ts, handle) == ts
clearTimeout(ts, handle) == ts \ {handle}

Holding == { q \in Pointers : activePointers[q] # None /\ ~activePointers[q].hasPlaced }

Init ==
  /\ now = 0
  /\ notes = << >>
  /\ playbackState = "STOPPED"
  /\ isGenerating = FALSE
  /\ message = "Hold for 2.5s to place a note."
  /\ activePointers = [q \in Pointers |-> None]
  /\ timers = {}
  /\ ripples = {}
  /\ pointer = [q \in Pointers |-> PointerUpState]
  /\ audio = "none"
  /\ sounding = {}
  /\ transport = StoppedTransport
  /\ completeQ = << >>
  /\ replayTimers = << >>
  /\ suspended = << >>
  /\ requests = << >>
  /\ event = "other"

AppVars == << notes, playbackState, isGenerating, message >>
StaffVars == << activePointers, timers, ripples >>
AudioVars == << audio, sounding, transport, completeQ >>
AsyncVars == << replayTimers, suspended, requests >>

Remove(s, i) == SubSeq(s, 1, i - 1) \o SubSeq(s, i + 1, Len(s))

\* The load promise has resolved and continuations of `await initialize()` are
\* still to run: they are microtasks, and run before any other event.
Resuming == audio = "ready" /\ suspended # << >>

\* ---------------------------------------------------------------- the clock
Overdue ==
  \/ \E t \in timers : t.due <= now
  \/ \E i \in 1..Len(replayTimers) : replayTimers[i].due <= now
  \/ transport.state = "started" /\ transport.onComplete # NoCb /\ transport.due <= now
  \/ completeQ # << >>

\* Time passes; a timer that is due runs before the clock moves on.
Tick ==
  /\ ~Resuming
  /\ now < MaxTicks * TimeStep
  /\ ~Overdue
  /\ now' = now + TimeStep
  /\ event' = "other"
  /\ UNCHANGED << AppVars, StaffVars, pointer, AudioVars, AsyncVars >>

\* ----------------------------------------------------------------- Staff
\* hitRect.on("pointerdown")
PointerDown(p, pos) ==
  LET mx == pos[1]
      my == pos[2]
      pitch == PitchAt(my)
      stepIndex == StepIndexAt(mx)
      placementTimer == [pointerId |-> p, due |-> now + HOLD_DURATION]
  IN
  /\ ~Resuming
  /\ ~pointer[p].down
  /\ Len(notes) + Cardinality(Holding) < MaxNotes
  /\ ~OnNoteShape(notes, mx, my)
  /\ pointer' = [pointer EXCEPT ![p] = [down |-> TRUE, since |-> now]]
  /\ event' = "other"
  /\ IF isNearExistingNote(notes, mx, my)
     THEN UNCHANGED << StaffVars, audio, sounding >>
     ELSE /\ audio' = startNoteAudio(audio)
          /\ sounding' = startNoteSounding(audio, sounding, pitch)
          /\ ripples' = ripples \cup {p}
          /\ timers' = timers \cup {placementTimer}
          /\ activePointers' = [activePointers EXCEPT ![p] =
               [pitch |-> pitch, stepIndex |-> stepIndex,
                placementTimer |-> placementTimer, hasPlaced |-> FALSE]]
  /\ UNCHANGED << now, AppVars, transport, completeQ, AsyncVars >>

\* hitRect.on("pointerup pointercancel")
PointerUp(p) ==
  LET data == activePointers[p] IN
  /\ ~Resuming
  /\ pointer[p].down
  /\ pointer' = [pointer EXCEPT ![p] = PointerUpState]
  /\ event' = "other"
  /\ IF data # None
     THEN /\ timers' = clearTimeout(timers, data.placementTimer)
          /\ ripples' = ripples \ {p}
          /\ sounding' = stopNote(audio, sounding, data.pitch)
          /\ activePointers' = [activePointers EXCEPT ![p] = None]
     ELSE UNCHANGED << StaffVars, sounding >>
  /\ UNCHANGED << now, AppVars, audio, transport, completeQ, AsyncVars >>

\* the setTimeout(..., HOLD_DURATION) callback of a pointerdown
PlacementTimer(t) ==
  LET data == activePointers[t.pointerId] IN
  /\ ~Resuming
  /\ t \in timers
  /\ t.due <= now
  /\ timers' = timers \ {t}
  /\ event' = "other"
  /\ IF data # None /\ ~data.hasPlaced
     THEN /\ activePointers' = [activePointers EXCEPT ![t.pointerId] = MarkPlaced(data)]
          /\ ripples' = ripples \ {t.pointerId}
          /\ sounding' = stopNote(audio, sounding, data.pitch)
          /\ notes' = handleAddNote(notes, NewNote(t.pointerId, data, now))
          /\ audio' = initialize(audio)
     ELSE UNCHANGED << activePointers, ripples, sounding, notes, audio >>
  /\ UNCHANGED << now, playbackState, isGenerating, message, pointer, transport,
                  completeQ, AsyncVars >>

\* noteEnter.on("dblclick") on the group of the k-th note of the list
DoubleClick(k) ==
  /\ ~Resuming
  /\ k \in 1..Len(notes)
  /\ notes' = onRemoveNote(notes, notes[k].id)
  /\ event' = "other"
  /\ UNCHANGED << now, playbackState, isGenerating, message, StaffVars, pointer,
                  AudioVars, AsyncVars >>

\* ------------------------------------------------------------------- audio
\* The sampler's onload: isInitialized = true, loadPromise resolves.
AudioLoaded ==
  /\ audio = "loading"
  /\ audio' = "ready"
  /\ event' = "other"
  /\ UNCHANGED << now, AppVars, StaffVars, pointer, sounding, transport, completeQ,
                  AsyncVars >>

\* Tone.Transport runs the event playSequence scheduled: setTimeout(onComplete, 0)
TransportEvent ==
  /\ ~Resuming
  /\ transport.state = "started"
  /\ transport.onComplete # NoCb
  /\ transport.due <= now
  /\ completeQ' = Append(completeQ, transport.onComplete)
  /\ transport' = FinishedTransport
  /\ event' = "other"
  /\ UNCHANGED << now, AppVars, StaffVars, pointer, audio, sounding, AsyncVars >>

\* the onComplete callback handed to playSequence
OnComplete ==
  LET cb == Head(completeQ) IN
  /\ ~Resuming
  /\ completeQ # << >>
  /\ completeQ' = Tail(completeQ)
  /\ playbackState' = "STOPPED"
  /\ message' = CASE cb.k = "play" ->
                       IF cb.generating THEN "Waiting for AI..." ELSE "Playback finished."
                  [] cb.k = "replay" -> "Done."
                  [] OTHER -> message
  /\ event' = "other"
  /\ UNCHANGED << now, notes, isGenerating, StaffVars, pointer, audio, sounding,
                  transport, AsyncVars >>

\* --------------------------------------------------------------------- App
\* The toolbar buttons are bound with onPointerDown; `disabled` suppresses
\* click and mouse events, not pointer events, so the handlers' own guards
\* decide what a press does.

Undo ==
  /\ ~Resuming
  /\ notes' = handleUndo(notes)
  /\ event' = "undo"
  /\ UNCHANGED << now, playbackState, isGenerating, message, StaffVars, pointer,
                  AudioVars, AsyncVars >>

Clear ==
  /\ ~Resuming
  /\ notes' = << >>
  /\ playbackState' = "STOPPED"
  /\ transport' = StoppedTransport
  /\ sounding' = stopSounding(audio, sounding)
  /\ event' = "other"
  /\ UNCHANGED << now, isGenerating, message, StaffVars, pointer, audio, completeQ,
                  AsyncVars >>

\* handlePlay after `await audioService.initialize()`; c is what its render saw
PlayBody(c) ==
  IF IsPlayingAtPress(c)
  THEN /\ transport' = StoppedTransport
       /\ sounding' = stopSounding(audio, sounding)
       /\ playbackState' = "STOPPED"
       /\ UNCHANGED message
  ELSE /\ playbackState' = "PLAYING"
       /\ message' = IF c.isGenerating THEN "Playing while AI composes..." ELSE "Playing..."
       /\ transport' = playSequence(c.notes, [k |-> "play", generating |-> c.isGenerating], now)
       /\ UNCHANGED sounding

\* handleGenerate after `await audioService.initialize()`
GenerateBody(c) ==
  /\ isGenerating' = TRUE
  /\ message' = "AI is listening..."
  /\ playbackState' = "PLAYING"
  /\ transport' = playSequence(c.notes, [k |-> "listen", generating |-> FALSE], now)
  /\ requests' = Append(requests, [currentNotes |-> c.notes])

\* what a handler's render saw of the state it goes on to read after the await
Closure(kind) ==
  [kind |-> kind, notes |-> notes,
   playbackState |-> IF kind = "play" THEN playbackState ELSE "STOPPED",
   isGenerating |-> IF kind = "play" THEN isGenerating ELSE FALSE]

\* the Play/Stop button
Play ==
  /\ ~Resuming
  /\ event' = "other"
  /\ IF Len(notes) = 0
     THEN UNCHANGED << AppVars, AudioVars, AsyncVars >>
     ELSE IF audio = "ready"
     THEN /\ PlayBody(Closure("play"))
          /\ UNCHANGED << notes, isGenerating, audio, completeQ, AsyncVars >>
     ELSE /\ Len(suspended) < MaxPending
          /\ suspended' = Append(suspended, Closure("play"))
          /\ audio' = initialize(audio)
          /\ UNCHANGED << AppVars, sounding, transport, completeQ, replayTimers, requests >>
  /\ UNCHANGED << now, StaffVars, pointer >>

\* the Generate button
Generate ==
  /\ ~Resuming
  /\ event' = "other"
  /\ IF TooFewNotes(notes)
     THEN /\ message' = "Please place at least 3 notes."
          /\ UNCHANGED << notes, playbackState, isGenerating, AudioVars, AsyncVars >>
     ELSE IF isGenerating
     THEN UNCHANGED << AppVars, AudioVars, AsyncVars >>
     ELSE IF audio = "ready"
     THEN /\ GenerateBody(Closure("generate"))
          /\ UNCHANGED << notes, audio, sounding, completeQ, replayTimers, suspended >>
     ELSE /\ Len(suspended) < MaxPending
          /\ suspended' = Append(suspended, Closure("generate"))
          /\ audio' = initialize(audio)
          /\ UNCHANGED << AppVars, sounding, transport, completeQ, replayTimers, requests >>
  /\ UNCHANGED << now, StaffVars, pointer >>

\* the continuation of the oldest handler waiting for the sampler
Resume ==
  LET c == Head(suspended) IN
  /\ Resuming
  /\ suspended' = Tail(suspended)
  /\ event' = "other"
  /\ IF c.kind = "play"
     THEN /\ PlayBody(c)
          /\ UNCHANGED << isGenerating, requests >>
     ELSE /\ GenerateBody(c)
          /\ UNCHANGED sounding
  /\ UNCHANGED << now, notes, StaffVars, pointer, audio, completeQ, replayTimers >>

\* generateContent settles for the i-th request: completeMelody returns or
\* throws, and handleGenerate goes on after `await geminiService.completeMelody`
AiResponds(i, response) ==
  LET result == completeMelody(requests[i].currentNotes, response, now) IN
  /\ ~Resuming
  /\ i \in 1..Len(requests)
  /\ requests' = Remove(requests, i)
  /\ isGenerating' = FALSE
  /\ IF result.threw
     THEN /\ message' = "Error generating music."
          /\ playbackState' = "STOPPED"
          /\ event' = "other"
          /\ UNCHANGED << notes, transport, sounding, replayTimers >>
     ELSE /\ notes' = setNotesAfterGenerate(notes, result.value)
          /\ message' = "Composition complete!"
          /\ transport' = StoppedTransport
          /\ sounding' = stopSounding(audio, sounding)
          /\ replayTimers' = Append(replayTimers,
                                    [due |-> now + REPLAY_DELAY, newNotes |-> result.value])
          /\ event' = "other"
          /\ UNCHANGED playbackState
  /\ UNCHANGED << now, StaffVars, pointer, audio, completeQ, suspended >>

\* handleGenerate's setTimeout(..., 500): play the new notes
ReplayTimer(i) ==
  /\ ~Resuming
  /\ i \in 1..Len(replayTimers)
  /\ replayTimers[i].due <= now
  /\ replayTimers' = Remove(replayTimers, i)
  /\ event' = "other"
  /\ IF replayTimers[i].newNotes = << >>
     THEN \* playSequence calls onComplete at once
          /\ playbackState' = "STOPPED"
          /\ message' = "Done."
          /\ transport' = StoppedTransport
     ELSE /\ playbackState' = "PLAYING"
          /\ transport' = playSequence(replayTimers[i].newNotes,
                                       [k |-> "replay", generating |-> FALSE], now)
          /\ UNCHANGED message
  /\ UNCHANGED << now, notes, isGenerating, StaffVars, pointer, audio, sounding,
                  completeQ, suspended, requests >>

\* the setTimeout handles the pointerdowns of the pointers P can create
TimerHandles(P) ==
  [pointerId : P, due : { HOLD_DURATION + k * TimeStep : k \in 0..MaxTicks }]

StaffNext(P) ==
  \/ Tick
  \/ AudioLoaded
  \/ \E p \in P, pos \in Positions : PointerDown(p, pos)
  \/ \E p \in P : PointerUp(p)
  \/ \E t \in TimerHandles(P) : PlacementTimer(t)
  \/ \E k \in 1..MaxNotes : DoubleClick(k)
  \/ Undo
  \/ Clear

\* The whole application, driven by a mouse.
Next ==
  \/ StaffNext(MousePointers)
  \/ TransportEvent
  \/ OnComplete
  \/ Play
  \/ Generate
  \/ Resume
  \/ \E i \in 1..MaxPending, response \in Responses : AiResponds(i, response)
  \/ \E i \in 1..MaxNotes : ReplayTimer(i)

Spec == Init /\ [][Next]_vars

\* The staff under multi-touch: the note list with its Undo, Clear and
\* double-click handlers; nothing is played or generated.
NextTouch == StaffNext(Pointers)

SpecTouch == Init /\ [][NextTouch]_vars

\* ------------------------------------------------------------ properties
\* the placement timer t calls onAddNote in this step
Places(t) == PlacementTimer(t) /\ notes' # notes

\* the notes of the list that pointer p placed during its present hold
NotesOfHold(p) ==
  { k \in 1..Len(notes) :
      /\ notes[k].id[1] = "user"
      /\ notes[k].id[3] = p
      /\ notes[k].id[2] > pointer[p].since }

\* C1: a long press places a note only once the pointer has been down for
\* HOLD_DURATION.  Every pending placement timer belongs to a pointer that is
\* still down and is due HOLD_DURATION after its pointerdown, so a pointerup
\* or pointercancel before that leaves no timer and no note is placed; a timer
\* that fires with the pointer still down appends exactly one user note with
\* the pitch and step the hold captured at pointerdown, startTime = stepIndex
\* and duration 4, and the staff adds notes in no other way.
C1_LongPressPlacesAfterHold ==
  /\ [](\A t \in timers :
          /\ pointer[t.pointerId].down
          /\ activePointers[t.pointerId] # None
          /\ activePointers[t.pointerId].placementTimer = t
          /\ t.due = pointer[t.pointerId].since + HOLD_DURATION)
  /\ [][/\ \A p \in Pointers, pos \in Positions :
             PointerDown(p, pos) /\ activePointers'[p] # None =>
               /\ activePointers'[p].pitch = PitchAt(pos[2])
               /\ activePointers'[p].stepIndex = StepIndexAt(pos[1])
        /\ \A p \in Pointers :
             activePointers[p] # None /\ activePointers'[p] # None =>
               /\ activePointers'[p].pitch = activePointers[p].pitch
               /\ activePointers'[p].stepIndex = activePointers[p].stepIndex
        /\ \A t \in timers :
             PlacementTimer(t) =>
               /\ now >= pointer[t.pointerId].since + HOLD_DURATION
               /\ pointer[t.pointerId].down
               /\ Len(notes') = Len(notes) + 1
               /\ SubSeq(notes', 1, Len(notes)) = notes
               /\ notes'[Len(notes')].pitch = activePointers[t.pointerId].pitch
               /\ notes'[Len(notes')].startTime =
                    activePointers[t.pointerId].stepIndex * UnitsPerStep
               /\ notes'[Len(notes')].duration = NOTE_DURATION
               /\ ~notes'[Len(notes')].isAiGenerated
        /\ Len(notes') > Len(notes) => \E t \in timers : Places(t)]_vars

\* a pointer is still down on the note its hold placed HOLD_DURATION after pointerdown
C1_Witness ==
  \E p \in Pointers :
    /\ pointer[p].down
    /\ activePointers[p] # None
    /\ activePointers[p].hasPlaced
    /\ \E k \in 1..Len(notes) :
         /\ notes[k].id = << "user", pointer[p].since + HOLD_DURATION, p >>
         /\ notes[k].pitch = activePointers[p].pitch
         /\ notes[k].startTime = activePointers[p].stepIndex * UnitsPerStep

\* C2: one pointerdown leads to at most one onAddNote call, however long the
\* pointer stays down: the list never holds more than one note of a pointer's
\* present hold, and none unless the hold's hasPlaced flag is set; a placement
\* happens only with the flag clear and sets it, and once set the flag stays
\* set and the hold adds nothing more until pointerup deletes the entry.
C2_AtMostOneNotePerHold ==
  /\ [](\A p \in Pointers :
          pointer[p].down =>
            Cardinality(NotesOfHold(p)) <=
              (IF activePointers[p] # None /\ activePointers[p].hasPlaced THEN 1 ELSE 0))
  /\ [][/\ \A t \in timers :
             Places(t) =>
               /\ ~activePointers[t.pointerId].hasPlaced
               /\ activePointers'[t.pointerId].hasPlaced
               /\ Len(notes') = Len(notes) + 1
        /\ \A p \in Pointers :
             (/\ activePointers[p] # None
              /\ activePointers[p].hasPlaced
              /\ activePointers'[p] # None) =>
               /\ activePointers'[p].hasPlaced
               /\ ~(\E t \in timers : t.pointerId = p /\ Places(t))]_vars

\* a hold has placed its note and has gone on for another HOLD_DURATION
C2_Witness ==
  \E p \in Pointers :
    /\ pointer[p].down
    /\ activePointers[p] # None
    /\ activePointers[p].hasPlaced
    /\ now >= pointer[p].since + 2 * HOLD_DURATION
    /\ Cardinality(NotesOfHold(p)) = 1

\* C3: the ids of the notes in the list are pairwise distinct in every
\* reachable state, so a double-click on a note removes that note and no
\* other: the list afterwards is the list before without the clicked element,
\* the others unchanged and in their order.
C3_DistinctIdsRemoveExactlyOne ==
  /\ [](\A i, j \in 1..Len(notes) : notes[i].id = notes[j].id => i = j)
  /\ [][\A k \in 1..Len(notes) :
          DoubleClick(k) =>
            notes' = SubSeq(notes, 1, k - 1) \o SubSeq(notes, k + 1, Len(notes))]_vars

\* the first of the notes a generation returned has been double-clicked away
\* (Undo and Clear never remove the head of a list and leave the rest)
C3_Witness ==
  /\ notes # << >>
  /\ notes[1].id[1] = "ai"
  /\ notes[1].id[2] = 1
  /\ message = "Composition complete!"

\* C4: a press on Generate with fewer than 3 notes sends no request (none is
\* issued and no handler is left waiting to issue one), leaves notes,
\* playbackState, isGenerating and the audio alone, and sets the message to
\* 'Please place at least 3 notes.'
C4_GenerateNeedsThreeNotes ==
  [][(Generate /\ Len(notes) < 3) =>
       /\ message' = "Please place at least 3 notes."
       /\ UNCHANGED << notes, playbackState, isGenerating, requests, suspended,
                       replayTimers, audio, sounding, transport, completeQ >>]_vars

\* Generate was pressed with two notes on the staff
C4_Witness ==
  /\ message = "Please place at least 3 notes."
  /\ Len(notes) = 2
  /\ notes[1].id[1] = "user"
  /\ requests = << >>
  /\ suspended = << >>
  /\ ~isGenerating

\* C5: when completeMelody returns, the note list becomes exactly the
\* sequence it returned for the notes the request was made with: the list is
\* replaced, whatever it held at that moment.
C5_SuccessReplacesNotes ==
  [][\A i \in 1..Len(requests), response \in Responses :
       (AiResponds(i, response) /\ response.kind = "json") =>
         /\ notes' = PostProcess(requests[i].currentNotes, response.value, now)
         /\ Len(notes') = Len(response.value)
         /\ message' = "Composition complete!"]_vars

\* a generation has replaced at least three notes by fewer, all from the AI
C5_Witness ==
  /\ message = "Composition complete!"
  /\ notes # << >>
  /\ Len(notes) < 3
  /\ \A k \in 1..Len(notes) : notes[k].id[1] = "ai"

\* C6: when the AI call fails (the request is rejected, the answer has no
\* text or is not JSON) completeMelody throws, and handleGenerate leaves the
\* notes as they are, sets playbackState to STOPPED, the message to 'Error
\* generating music.' and isGenerating to false.
C6_FailureKeepsNotes ==
  [][\A i \in 1..Len(requests), response \in Responses :
       (AiResponds(i, response) /\ response.kind # "json") =>
         /\ completeMelody(requests[i].currentNotes, response, now).threw
         /\ UNCHANGED notes
         /\ playbackState' = "STOPPED"
         /\ message' = "Error generating music."
         /\ isGenerating' = FALSE]_vars

\* a generation has failed with the user's notes on the staff
C6_Witness ==
  /\ message = "Error generating music."
  /\ playbackState = "STOPPED"
  /\ ~isGenerating
  /\ Len(notes) >= 3
  /\ \A k \in 1..Len(notes) : notes[k].id[1] = "user"

\* C7: Undo removes exactly the last element of the note list and touches
\* nothing else of it; on the empty list it leaves the list empty; and an
\* Undo right after a placement would give back the list as it was before
\* the placement.
C7_UndoRemovesLast ==
  [][/\ Undo =>
          /\ notes = << >> => notes' = << >>
          /\ notes # << >> =>
               /\ Len(notes') = Len(notes) - 1
               /\ \A k \in 1..Len(notes') : notes'[k] = notes[k]
     /\ \A t \in timers : Places(t) => handleUndo(notes') = notes]_vars

\* Undo has just removed the last of several notes
C7_Witness ==
  /\ event = "undo"
  /\ Len(notes) >= 1
  /\ \E p \in Pointers : activePointers[p] # None /\ activePointers[p].hasPlaced

\* C8: the Play/Stop button toggles.  With an empty list a press does
\* nothing.  With notes on the staff, a press while PLAYING stops the audio,
\* sets STOPPED and schedules nothing; a press while STOPPED sets PLAYING and
\* schedules the notes of the list as it is at the press, at once when the
\* sampler is loaded and else as soon as it has loaded.
C8_PlayStopToggle ==
  [][/\ (Play /\ Len(notes) = 0) =>
          UNCHANGED << AppVars, AudioVars, AsyncVars >>
     /\ (Play /\ Len(notes) > 0 /\ playbackState = "PLAYING") =>
          /\ playbackState' = "STOPPED"
          /\ transport' = StoppedTransport
          /\ sounding' = {}
          /\ UNCHANGED << notes, suspended, completeQ >>
     /\ (Play /\ Len(notes) > 0 /\ playbackState = "STOPPED" /\ audio = "ready") =>
          /\ playbackState' = "PLAYING"
          /\ transport'.state = "started"
          /\ transport'.notes = notes
          /\ UNCHANGED notes
     /\ (Play /\ Len(notes) > 0 /\ playbackState = "STOPPED" /\ audio # "ready") =>
          /\ Len(suspended') = Len(suspended) + 1
          /\ suspended'[Len(suspended')].kind = "play"
          /\ suspended'[Len(suspended')].notes = notes
          /\ UNCHANGED << AppVars, transport >>
     /\ (Resume /\ Head(suspended).kind = "play") =>
          /\ playbackState' = "PLAYING"
          /\ transport'.state = "started"
          /\ transport'.notes = Head(suspended).notes
          /\ UNCHANGED notes]_vars

\* the button has stopped a playback before its end: nothing is scheduled,
\* the message is still that of the press that started the playback, and the
\* list still holds the first note the mouse could place, so that no Clear
\* can have stopped it
C8_Witness ==
  /\ playbackState = "STOPPED"
  /\ transport = StoppedTransport
  /\ message = "Playing..."
  /\ audio = "ready"
  /\ notes # << >>
  /\ notes[1].id[1] = "user"
  /\ notes[1].id[2] = HOLD_DURATION

\* C9: a pointerdown closer than EXCLUSION_RADIUS to the position at which
\* an existing note is drawn starts no hold: no preview sound, no ripple, no
\* placement timer and no activePointers entry.
C9_NoHoldNearDrawnNote ==
  [][\A p \in Pointers, pos \in Positions :
       (PointerDown(p, pos) /\ IsNearDrawnNote(notes, pos[1], pos[2])) =>
         UNCHANGED << activePointers, timers, ripples, sounding >>]_vars

C11_ChangedNotesMarkedAi ==
  [][\A i \in 1..Len(requests), response \in Responses :
       (response.kind = "json" /\ AiResponds(i, response)) =>
         \A k \in 1..Len(notes') :
           (~\E c \in Range(requests[i].currentNotes) :
                /\ c.pitch = notes'[k].pitch
                /\ c.startTime = notes'[k].startTime
                /\ c.duration = notes'[k].duration)
             => notes'[k].isAiGenerated]_vars

====
